---------------------------- MODULE Spec2Model ----------------------------
(***************************************************************************)
(* A model of pathvalidate's path-level engine: FilePathValidator and       *)
(* FilePathSanitizer (src/pathvalidate/_filepath.py) over the shared base   *)
(* classes (src/pathvalidate/_base.py).                                     *)
(*                                                                         *)
(* A Python str is a sequence of characters; a character is written as a    *)
(* one-character TLA+ string, and a character with no printable form by its *)
(* code point ("x01" is chr(1), "x09" the tab, "x60" the backquote).  All   *)
(* characters of the model are ASCII, so the byte length of a string in     *)
(* the file system encoding is its length.                                  *)
(*                                                                         *)
(* The standard library functions the engine calls (ntpath, posixpath,      *)
(* os.path) are modelled as CPython 3.11.6 computes them, on a POSIX host   *)
(* (os.path is posixpath).                                                  *)
(***************************************************************************)
EXTENDS Integers, Sequences, FiniteSets, TLC

VARIABLES
    pc,         \* "new", then "failed" or "ready", then "called", then "chained";
                \* "ready" again once a call is over
    ctor,       \* the arguments the engines were constructed with
    validator,  \* the FilePathValidator instance: its attributes
    sanitizer,  \* the FilePathSanitizer instance: its attributes
    call,       \* the call made on an instance: the method and its arguments
    ret,        \* what the call returned or raised
    chain,      \* the follow-up call made with the value the call returned
    calls       \* how many calls have been made on the instances

vars == <<pc, ctor, validator, sanitizer, call, ret, chain, calls>>

-----------------------------------------------------------------------------
(* Characters *)

\* chr(c) for c in range(128) if chr(c) not in string.printable
unprintable_ascii_chars ==
    { "x00", "x01", "x02", "x03", "x04", "x05", "x06", "x07", "x08",
      "x0e", "x0f", "x10", "x11", "x12", "x13", "x14", "x15", "x16", "x17",
      "x18", "x19", "x1a", "x1b", "x1c", "x1d", "x1e", "x1f", "x7f" }

\* "\t\n\r\x0b\x0c"
WhitespaceControls == { "x09", "x0a", "x0d", "x0b", "x0c" }

LowerCase == << "a", "b", "c", "d", "e", "f", "g", "h", "i", "j", "k", "l", "m",
                "n", "o", "p", "q", "r", "s", "t", "u", "v", "w", "x", "y", "z" >>

UpperCase == << "A", "B", "C", "D", "E", "F", "G", "H", "I", "J", "K", "L", "M",
                "N", "O", "P", "Q", "R", "S", "T", "U", "V", "W", "X", "Y", "Z" >>

Digits == { "0", "1", "2", "3", "4", "5", "6", "7", "8", "9" }

Punctuation ==
    { "!", "\"", "#", "$", "%", "&", "'", "(", ")", "*", "+", ",", "-", ".",
      "/", ":", ";", "<", "=", ">", "?", "@", "[", "\\", "]", "^", "_", "x60",
      "{", "|", "}", "~" }

\* every ASCII character
Ascii ==
    unprintable_ascii_chars \cup WhitespaceControls \cup { " " }
        \cup { LowerCase[i] : i \in 1..26 } \cup { UpperCase[i] : i \in 1..26 }
        \cup Digits \cup Punctuation

\* str.isspace for an ASCII character (0x1c..0x1f are whitespace to Python)
IsSpace(c) == c \in WhitespaceControls \cup { " ", "x1c", "x1d", "x1e", "x1f" }

\* str.upper on one character
UpperChar(c) ==
    IF \E i \in 1..26 : LowerCase[i] = c
    THEN UpperCase[CHOOSE i \in 1..26 : LowerCase[i] = c]
    ELSE c

-----------------------------------------------------------------------------
(* Strings *)

\* s[i:] with a 1-based i
From(s, i) == SubSeq(s, i, Len(s))

\* s[:n]
Take(s, n) == SubSeq(s, 1, IF n < Len(s) THEN n ELSE Len(s))

\* s[m-1:n] with 1-based m and n: a slice runs to the end of s at most
Slice(s, m, n) == SubSeq(s, m, IF n < Len(s) THEN n ELSE Len(s))

StartsWith(s, p) == Len(s) >= Len(p) /\ SubSeq(s, 1, Len(p)) = p

\* str.upper
Upper(s) == [i \in 1..Len(s) |-> UpperChar(s[i])]

\* str.replace(a, b) for single characters a and b
ReplaceChar(s, a, b) == [i \in 1..Len(s) |-> IF s[i] = a THEN b ELSE s[i]]

\* the least index >= from at which character c occurs in s, 0 if none
\* (str.find, 1-based)
Find(s, c, from) ==
    IF \E i \in from..Len(s) : s[i] = c
    THEN CHOOSE i \in from..Len(s) : s[i] = c /\ \A j \in from..(i - 1) : s[j] # c
    ELSE 0

\* the greatest index at which character c occurs in s, 0 if none (str.rfind)
RFind(s, c) ==
    IF \E i \in 1..Len(s) : s[i] = c
    THEN CHOOSE i \in 1..Len(s) : s[i] = c /\ \A j \in (i + 1)..Len(s) : s[j] # c
    ELSE 0

\* s.split(c): the pieces of s between the occurrences of character c
RECURSIVE Split(_, _)
Split(s, c) ==
    LET i == Find(s, c, 1)
    IN  IF i = 0 THEN << s >>
        ELSE << SubSeq(s, 1, i - 1) >> \o Split(From(s, i + 1), c)

\* sep.join(parts)
RECURSIVE Join(_, _)
Join(parts, sep) ==
    IF Len(parts) = 0 THEN << >>
    ELSE IF Len(parts) = 1 THEN parts[1]
    ELSE parts[1] \o sep \o Join(Tail(parts), sep)

\* re.compile("[" + chars + "]").sub(repl, s): every character of s that is
\* in chars is replaced by the text repl; the replacement is not scanned again
RECURSIVE Sub(_, _, _)
Sub(chars, repl, s) ==
    IF s = << >> THEN << >>
    ELSE (IF Head(s) \in chars THEN repl ELSE << Head(s) >>)
             \o Sub(chars, repl, Tail(s))

\* re.compile("[" + chars + "]").findall(s) is not empty
Matches(chars, s) == \E i \in 1..Len(s) : s[i] \in chars

\* str.strip() leaves nothing
IsBlank(s) == \A i \in 1..Len(s) : IsSpace(s[i])

-----------------------------------------------------------------------------
(* The standard library's path functions *)

\* posixpath.splitdrive(p): a POSIX path has no drive
posixpath_splitdrive(p) == [drive |-> << >>, tail |-> p]

\* ntpath.splitdrive(p): a UNC or device drive ("\\\\host\\share",
\* "\\\\?\\UNC\\host\\share", "\\\\.\\device") or a drive letter with its
\* colon, and the rest
ntpath_splitdrive(p) ==
    LET normp      == ReplaceChar(p, "/", "\\")
        unc_prefix == << "\\", "\\", "?", "\\", "U", "N", "C", "\\" >>
        start      == IF Upper(Slice(normp, 1, 8)) = unc_prefix THEN 8 ELSE 2
        index      == Find(normp, "\\", start + 1)
        index2     == Find(normp, "\\", index + 1)
    IN  IF Len(p) < 2 THEN [drive |-> << >>, tail |-> p]
        ELSE IF Slice(normp, 1, 2) = << "\\", "\\" >>
        THEN IF index = 0 \/ index2 = 0
             THEN [drive |-> p, tail |-> << >>]
             ELSE [drive |-> SubSeq(p, 1, index2 - 1), tail |-> From(p, index2)]
        ELSE IF normp[2] = ":"
        THEN [drive |-> SubSeq(p, 1, 2), tail |-> From(p, 3)]
        ELSE [drive |-> << >>, tail |-> p]

\* posixpath.isabs(s)
posixpath_isabs(s) == StartsWith(s, << "/" >>)

\* ntpath.isabs(s): a path is absolute when it starts with a separator
\* (UNC, device, or rooted without a drive) or with a drive letter, its colon
\* and a separator
ntpath_isabs(s) ==
    LET s3 == ReplaceChar(Slice(s, 1, 3), "/", "\\")
    IN  StartsWith(s3, << "\\" >>) \/ Slice(s3, 2, 3) = << ":", "\\" >>

\* the loop of posixpath.normpath over the components: "" and "." are
\* dropped, ".." removes the component before it where there is one to remove
RECURSIVE NormComps(_, _, _)
NormComps(comps, new_comps, initial_slashes) ==
    IF comps = << >> THEN new_comps
    ELSE LET comp == Head(comps)
             n    == Len(new_comps)
         IN  IF comp = << >> \/ comp = << "." >>
             THEN NormComps(Tail(comps), new_comps, initial_slashes)
             ELSE IF \/ comp # << ".", "." >>
                     \/ (initial_slashes = 0 /\ n = 0)
                     \/ (n > 0 /\ new_comps[n] = << ".", "." >>)
             THEN NormComps(Tail(comps), Append(new_comps, comp), initial_slashes)
             ELSE IF n > 0
             THEN NormComps(Tail(comps), SubSeq(new_comps, 1, n - 1), initial_slashes)
             ELSE NormComps(Tail(comps), new_comps, initial_slashes)

\* os.path.normpath(path) on a POSIX host: posixpath.normpath
normpath(path) ==
    LET initial_slashes ==
            IF ~StartsWith(path, << "/" >>) THEN 0
            ELSE IF StartsWith(path, << "/", "/" >>)
                        /\ ~StartsWith(path, << "/", "/", "/" >>)
            THEN 2
            ELSE 1
        comps  == NormComps(Split(path, "/"), << >>, initial_slashes)
        joined == [i \in 1..initial_slashes |-> "/"] \o Join(comps, << "/" >>)
    IN  IF path = << >> THEN << "." >>
        ELSE IF joined = << >> THEN << "." >>
        ELSE joined

\* os.path.basename(p) on a POSIX host
basename(p) == From(p, RFind(p, "/") + 1)

\* os.path.splitext(p)[0] on a POSIX host: p without its extension; leading
\* dots of the last component do not start an extension
splitext_root(p) ==
    LET sepIndex == RFind(p, "/")
        dotIndex == RFind(p, ".")
    IN  IF dotIndex > sepIndex
               /\ \E k \in (sepIndex + 1)..(dotIndex - 1) : p[k] # "."
        THEN SubSeq(p, 1, dotIndex - 1)
        ELSE p

\* os.path.splitext(p)[1]
splitext_ext(p) == From(p, Len(splitext_root(p)) + 1)

\* str(PurePath(p)) on a POSIX host: repeated separators, "." components and
\* a trailing separator are dropped, exactly two leading separators are kept
PurePath_str(p) ==
    LET root  == IF ~StartsWith(p, << "/" >>) THEN << >>
                 ELSE IF StartsWith(p, << "/", "/" >>)
                             /\ ~StartsWith(p, << "/", "/", "/" >>)
                 THEN << "/", "/" >>
                 ELSE << "/" >>
        parts == SelectSeq(Split(p, "/"), LAMBDA x : x # << >> /\ x # << "." >>)
        text  == root \o Join(parts, << "/" >>)
    IN  IF text = << >> THEN << "." >> ELSE text

-----------------------------------------------------------------------------
(* Values, platforms, error reasons *)

Platforms == { "POSIX", "UNIVERSAL", "LINUX", "WINDOWS", "MACOS" }

\* a Python value handed to the engine: a str, a pathlib path (s is its
\* text), None, or a scalar that is neither (an int)
Str(s)       == [type |-> "str", s |-> s]
PathValue(s) == [type |-> "PurePath", s |-> s]
NoneValue    == [type |-> "NoneType", s |-> << >>]
IntValue     == [type |-> "int", s |-> << >>]
BoolValue(b) == [type |-> "bool", s |-> << >>, b |-> b]

\* what validate does: it returns None ("OK") or raises; a ValidationError is
\* named by its ErrorReason, the only other exception is the TypeError
ErrorReasons ==
    { "NULL_NAME", "INVALID_CHARACTER", "INVALID_LENGTH", "RESERVED_NAME",
      "MALFORMED_ABS_PATH" }

Returned(v) == [kind |-> "return", value |-> v, error |-> "none"]
Raised(e)   == [kind |-> "raise", value |-> NoneValue, error |-> e]

-----------------------------------------------------------------------------
(* _base.py: BaseFile *)

DEFAULT_MIN_LEN == 1

_INVALID_PATH_CHARS == unprintable_ascii_chars

_INVALID_FILENAME_CHARS == _INVALID_PATH_CHARS \cup { "/" }

_INVALID_WIN_PATH_CHARS ==
    _INVALID_PATH_CHARS
        \cup { ":", "*", "?", "\"", "<", ">", "|", "x09", "x0a", "x0d", "x0b", "x0c" }

_INVALID_WIN_FILENAME_CHARS ==
    _INVALID_FILENAME_CHARS \cup _INVALID_WIN_PATH_CHARS \cup { "\\" }

_is_posix(platform) == platform = "POSIX"

_is_universal(platform) == platform = "UNIVERSAL"

_is_linux(platform) == platform = "LINUX"

_is_windows(platform, include_universal) ==
    IF include_universal THEN platform \in { "UNIVERSAL", "WINDOWS" }
    ELSE platform = "WINDOWS"

_is_macos(platform) == platform = "MACOS"

_get_default_max_path_len(platform) ==
    IF _is_linux(platform) THEN 4096
    ELSE IF _is_windows(platform, FALSE) THEN 260
    ELSE IF _is_posix(platform) \/ _is_macos(platform) THEN 1024
    ELSE 260

\* _validate_max_len raises ValueError
_validate_max_len_raises(min_len, max_len) == max_len < 1 \/ min_len > max_len

Max(a, b) == IF a > b THEN a ELSE b

Min(a, b) == IF a < b THEN a ELSE b

\* BaseFile.__init__ had it kept the caller's max_len unclamped, leaving out
\* min(self._max_len, platform_max_len)
BaseFile_init_unclamped(min_len, max_len, check_reserved, platform) ==
    LET min1             == IF min_len <= 0 THEN DEFAULT_MIN_LEN ELSE min_len
        platform_max_len == _get_default_max_path_len(platform)
        max1             == IF max_len <= 0 THEN platform_max_len ELSE max_len
        self == [ platform       |-> platform,
                  check_reserved |-> check_reserved,
                  min_len        |-> Max(min1, 1),
                  max_len        |-> max1 ]
    IN  [ self |-> self, raised |-> _validate_max_len_raises(self.min_len, self.max_len) ]

\* BaseFile.__init__ with platform_max_len None: the attributes it sets, and
\* whether it raised
BaseFile_init(min_len, max_len, check_reserved, platform) ==
    LET min1             == IF min_len <= 0 THEN DEFAULT_MIN_LEN ELSE min_len
        platform_max_len == _get_default_max_path_len(platform)
        max1             == IF max_len <= 0 THEN platform_max_len ELSE max_len
        self == [ platform       |-> platform,
                  check_reserved |-> check_reserved,
                  min_len        |-> Max(min1, 1),
                  max_len        |-> Min(max1, platform_max_len) ]
    IN  [ self |-> self, raised |-> _validate_max_len_raises(self.min_len, self.max_len) ]

-----------------------------------------------------------------------------
(* Collaborators whose source is outside the two engine files: the rule      *)
(* tables and the name-level engine, after the specification's sections 3,   *)
(* 4.2 and 4.3                                                               *)

\* the Windows device names: CON, PRN, AUX, NUL, COM1..COM9, LPT1..LPT9
WindowsDeviceNames ==
    { << "C", "O", "N" >>, << "P", "R", "N" >>, << "A", "U", "X" >>,
      << "N", "U", "L" >> }
        \cup { << "C", "O", "M", d >> : d \in Digits \ { "0" } }
        \cup { << "L", "P", "T", d >> : d \in Digits \ { "0" } }

\* the names a path component is compared with before it reaches the name
\* sanitizer
_NTFS_RESERVED_FILE_NAMES == WindowsDeviceNames

\* _common.validate_pathtype: "OK", or the error it raises.  A path object
\* and a str with a character that is not white space pass; a str of white
\* space alone passes where white space is allowed; None and a str that
\* strips to nothing are a NULL_NAME; anything else is a type mismatch
validate_pathtype(text, allow_whitespaces) ==
    IF text.type = "PurePath" THEN "OK"
    ELSE IF text.type = "str" /\ ~IsBlank(text.s) THEN "OK"
    ELSE IF allow_whitespaces /\ text.type = "str" /\ text.s # << >> THEN "OK"
    ELSE IF text.type = "NoneType" \/ text.type = "str" THEN "NULL_NAME"
    ELSE "TypeError"

\* _common.to_str: the text of a path object, a str as it is
to_str(value) == IF value.type = "PurePath" THEN PurePath_str(value.s) ELSE value.s

\* FileNameValidator.reserved_keywords
FileNameValidator_reserved_keywords(platform) ==
    IF _is_windows(platform, TRUE) THEN WindowsDeviceNames ELSE { }

\* the null-value-handler strategies: handler.return_null_string returns "",
\* handler.raise_error raises the error it is given, handler.return_timestamp
\* returns the text of a timestamp
NullValueHandlers == { "return_null_string", "raise_error", "return_timestamp" }

\* the text handler.return_timestamp returns: digits, never empty
TimestampText == << "1", "7" >>

null_value_handler(handler, error) ==
    IF handler = "raise_error" THEN Raised(error)
    ELSE IF handler = "return_timestamp" THEN Returned(Str(TimestampText))
    ELSE Returned(Str(<< >>))

-----------------------------------------------------------------------------
(* _base.py: BaseValidator *)

\* BaseValidator.__extract_root_name
extract_root_name(path) == splitext_root(basename(path))

\* _validate_reserved_keywords had it compared the root name as written,
\* leaving out upper()
_validate_reserved_keywords_case_sensitive(check_reserved, reserved_keywords, name) ==
    /\ check_reserved
    /\ extract_root_name(name) \in reserved_keywords

\* BaseValidator._validate_reserved_keywords raises a ReservedNameError;
\* reserved_keywords is the property of the validator it is called on
_validate_reserved_keywords_raises(check_reserved, reserved_keywords, name) ==
    /\ check_reserved
    /\ Upper(extract_root_name(name)) \in reserved_keywords

-----------------------------------------------------------------------------
(* _filepath.py: FilePathValidator *)

_MACOS_RESERVED_FILE_PATHS == { << "/" >>, << ":" >> }

\* FilePathValidator.reserved_keywords; BaseFile.reserved_keywords is empty
FilePathValidator_reserved_keywords(platform) ==
    IF _is_universal(platform) \/ _is_posix(platform) \/ _is_macos(platform)
    THEN _MACOS_RESERVED_FILE_PATHS
    ELSE IF _is_linux(platform) THEN { << "/" >> }
    ELSE { }

\* the drive-splitting function an instance holds
split_drive_of(platform) ==
    IF _is_windows(platform, TRUE) THEN "ntpath.splitdrive" ELSE "posixpath.splitdrive"

split_drive(self, p) ==
    IF self.split_drive = "ntpath.splitdrive" THEN ntpath_splitdrive(p)
    ELSE posixpath_splitdrive(p)

\* FilePathValidator.__init__
FilePathValidator_init(min_len, max_len, platform, check_reserved) ==
    LET base == BaseFile_init(min_len, max_len, check_reserved, platform)
    IN  [ self   |-> [ platform       |-> base.self.platform,
                       check_reserved |-> base.self.check_reserved,
                       min_len        |-> base.self.min_len,
                       max_len        |-> base.self.max_len,
                       split_drive    |-> split_drive_of(platform) ],
          raised |-> base.raised ]

\* FilePathValidator.validate_abspath raises MALFORMED_ABS_PATH.  The error
\* built for the universal platform is dropped, not raised
validate_abspath_raises(self, value) ==
    LET is_posix_abs == posixpath_isabs(value)
        is_nt_abs    == ntpath_isabs(value)
        drive        == ntpath_splitdrive(value).drive
    IN  IF \/ (_is_windows(self.platform, FALSE) /\ is_nt_abs)
           \/ (_is_linux(self.platform) /\ is_posix_abs)
        THEN FALSE
        ELSE IF _is_windows(self.platform, TRUE) /\ is_posix_abs THEN TRUE
        ELSE ~_is_windows(self.platform, FALSE) /\ drive # << >> /\ is_nt_abs

\* FilePathValidator.__validate_unix_filepath: "OK" or the reason raised
validate_unix_filepath(unicode_filepath) ==
    IF Matches(_INVALID_PATH_CHARS, unicode_filepath) THEN "INVALID_CHARACTER"
    ELSE "OK"

\* _RE_NTFS_RESERVED.search(value): value is "/" and a reserved name,
\* whatever the case of its letters
RE_NTFS_RESERVED_search(value) ==
    /\ StartsWith(value, << "/" >>)
    /\ \E name \in _NTFS_RESERVED_FILE_NAMES : Upper(Tail(value)) = Upper(name)

\* FilePathValidator.__validate_win_filepath: "OK" or the reason raised
validate_win_filepath(self, unicode_filepath) ==
    LET value == split_drive(self, unicode_filepath).tail
    IN  IF Matches(_INVALID_WIN_PATH_CHARS, unicode_filepath) THEN "INVALID_CHARACTER"
        ELSE IF value # << >> /\ RE_NTFS_RESERVED_search(value) THEN "RESERVED_NAME"
        ELSE "OK"

\* the loop of FilePathValidator.validate over the components: some
\* component other than "", "." and ".." is a reserved name
entry_reserved(self, unicode_filepath) ==
    LET entries == Split(ReplaceChar(unicode_filepath, "\\", "/"), "/")
    IN  \E i \in 1..Len(entries) :
            /\ entries[i] \notin { << >>, << "." >>, << ".", "." >> }
            /\ _validate_reserved_keywords_raises(self.check_reserved,
                   FileNameValidator_reserved_keywords(self.platform), entries[i])

\* FilePathValidator.validate had it scanned for invalid characters before
\* the reserved-name checks
FilePathValidator_validate_chars_first(self, value) ==
    LET pathtype == validate_pathtype(value, ~_is_windows(self.platform, TRUE))
        text     == to_str(value)
        tail     == split_drive(self, text).tail
        byte_ct  == Len(tail)
        slashed  == ReplaceChar(tail, "\\", "/")
        scanned  == IF _is_windows(self.platform, TRUE)
                    THEN validate_win_filepath(self, slashed)
                    ELSE validate_unix_filepath(slashed)
    IN  IF pathtype # "OK" THEN pathtype
        ELSE IF validate_abspath_raises(self, text) THEN "MALFORMED_ABS_PATH"
        ELSE IF tail = << >> THEN "OK"
        ELSE IF byte_ct > self.max_len THEN "INVALID_LENGTH"
        ELSE IF byte_ct < self.min_len THEN "INVALID_LENGTH"
        ELSE IF scanned # "OK" THEN scanned
        ELSE IF _validate_reserved_keywords_raises(self.check_reserved,
                    FilePathValidator_reserved_keywords(self.platform), tail)
        THEN "RESERVED_NAME"
        ELSE IF entry_reserved(self, tail) THEN "RESERVED_NAME"
        ELSE "OK"

\* FilePathValidator.validate(value): "OK" when it returns, or what it raises
FilePathValidator_validate(self, value) ==
    LET pathtype == validate_pathtype(value, ~_is_windows(self.platform, TRUE))
        text     == to_str(value)
        tail     == split_drive(self, text).tail
        byte_ct  == Len(tail)
        slashed  == ReplaceChar(tail, "\\", "/")
    IN  IF pathtype # "OK" THEN pathtype
        ELSE IF validate_abspath_raises(self, text) THEN "MALFORMED_ABS_PATH"
        ELSE IF tail = << >> THEN "OK"
        ELSE IF byte_ct > self.max_len THEN "INVALID_LENGTH"
        ELSE IF byte_ct < self.min_len THEN "INVALID_LENGTH"
        ELSE IF _validate_reserved_keywords_raises(self.check_reserved,
                    FilePathValidator_reserved_keywords(self.platform), tail)
        THEN "RESERVED_NAME"
        ELSE IF entry_reserved(self, tail) THEN "RESERVED_NAME"
        ELSE IF _is_windows(self.platform, TRUE)
        THEN validate_win_filepath(self, slashed)
        ELSE validate_unix_filepath(slashed)

\* is_valid had it caught ValidationError alone: a TypeError leaves it
is_valid_catching_ValidationError(self, value) ==
    LET outcome == FilePathValidator_validate(self, value)
    IN  IF outcome \in ErrorReasons THEN Returned(BoolValue(FALSE))
        ELSE IF outcome = "TypeError" THEN Raised("TypeError")
        ELSE Returned(BoolValue(TRUE))

\* AbstractValidator.is_valid(value): TypeError and ValidationError are
\* caught and answered with False
is_valid(self, value) ==
    LET outcome == FilePathValidator_validate(self, value)
    IN  IF outcome \in ErrorReasons \cup { "TypeError" } THEN Returned(BoolValue(FALSE))
        ELSE Returned(BoolValue(TRUE))

\* validate as a call: it returns None or raises
validate(self, value) ==
    LET outcome == FilePathValidator_validate(self, value)
    IN  IF outcome = "OK" THEN Returned(NoneValue) ELSE Raised(outcome)

-----------------------------------------------------------------------------
(* The name-level engine the path sanitizer delegates each component to,     *)
(* after the specification's sections 4.2 and 4.3                            *)

FileName_invalid_chars(platform) ==
    IF _is_windows(platform, TRUE) THEN _INVALID_WIN_FILENAME_CHARS
    ELSE _INVALID_FILENAME_CHARS

\* NameValidator.validate(name): null, then length, then reserved name, then
\* invalid character
FileNameValidator_validate(self, name) ==
    LET pathtype == validate_pathtype(Str(name), ~_is_windows(self.platform, TRUE))
    IN  IF pathtype # "OK" THEN pathtype
        ELSE IF Len(name) > self.max_len \/ Len(name) < DEFAULT_MIN_LEN
        THEN "INVALID_LENGTH"
        ELSE IF _validate_reserved_keywords_raises(self.check_reserved,
                    FileNameValidator_reserved_keywords(self.platform), name)
        THEN "RESERVED_NAME"
        ELSE IF Matches(FileName_invalid_chars(self.platform), name)
        THEN "INVALID_CHARACTER"
        ELSE "OK"

\* NameSanitizer.sanitize(name, replacement): the invalid characters are
\* replaced; a reserved stem gets an underscore ("LPT9.txt" becomes
\* "LPT9_.txt"); an empty name or result goes to the null-value handler
FileNameSanitizer_sanitize(self, name, replacement_text) ==
    LET pathtype  == validate_pathtype(Str(name), ~_is_windows(self.platform, TRUE))
        replaced  == Sub(FileName_invalid_chars(self.platform), replacement_text, name)
        verdict   == FileNameValidator_validate(self, replaced)
        sanitized ==
            IF verdict = "RESERVED_NAME"
            THEN Returned(Str(splitext_root(replaced) \o << "_" >> \o splitext_ext(replaced)))
            ELSE IF verdict = "NULL_NAME"
            THEN null_value_handler(self.null_value_handler, "NULL_NAME")
            ELSE Returned(Str(replaced))
    IN  IF pathtype = "NULL_NAME"
        THEN null_value_handler(self.null_value_handler, "NULL_NAME")
        ELSE IF sanitized.kind = "raise" THEN sanitized
        ELSE IF self.validate_after_sanitize
                    /\ FileNameValidator_validate(self, sanitized.value.s) # "OK"
        THEN Raised(FileNameValidator_validate(self, sanitized.value.s))
        ELSE sanitized

-----------------------------------------------------------------------------
(* _filepath.py: FilePathSanitizer *)

\* FilePathSanitizer._get_sanitize_regexp: the pattern an instance holds
_get_sanitize_regexp(platform) ==
    IF _is_windows(platform, TRUE) THEN "_RE_INVALID_WIN_PATH" ELSE "_RE_INVALID_PATH"

\* the characters a pattern matches
regexp_chars(regexp) ==
    IF regexp = "_RE_INVALID_WIN_PATH" THEN _INVALID_WIN_PATH_CHARS
    ELSE _INVALID_PATH_CHARS

\* __get_path_separator had it joined with "/" on every platform
get_path_separator_slash(self) == << "/" >>

\* FilePathSanitizer.__get_path_separator
get_path_separator(self) ==
    IF _is_windows(self.platform, FALSE) THEN << "\\" >> ELSE << "/" >>

\* FilePathSanitizer.__init__: it builds its validator with DEFAULT_MIN_LEN,
\* and its own attributes from the same arguments
FilePathSanitizer_init(max_len, platform, check_reserved, handler, normalize, validate_after_sanitize) ==
    LET fpath_validator ==
            FilePathValidator_init(DEFAULT_MIN_LEN, max_len, platform, check_reserved)
        base == BaseFile_init(DEFAULT_MIN_LEN, max_len, check_reserved, platform)
    IN  [ self   |-> [ platform                |-> base.self.platform,
                       check_reserved          |-> base.self.check_reserved,
                       min_len                 |-> base.self.min_len,
                       max_len                 |-> base.self.max_len,
                       validator               |-> fpath_validator.self,
                       null_value_handler      |-> handler,
                       validate_after_sanitize |-> validate_after_sanitize,
                       sanitize_regexp         |-> _get_sanitize_regexp(platform),
                       normalize               |-> normalize,
                       split_drive             |-> split_drive_of(platform) ],
          raised |-> fpath_validator.raised \/ base.raised ]

\* the loop of FilePathSanitizer.sanitize over the components of the tail:
\* the entries kept so far and the error a component's sanitizer raised
RECURSIVE sanitize_entries(_, _, _, _)
sanitize_entries(self, entries, replacement_text, sanitized_entries) ==
    IF entries = << >>
    THEN [ error |-> "none", entries |-> sanitized_entries ]
    ELSE LET entry == Head(entries)
             named == FileNameSanitizer_sanitize(self, entry, replacement_text)
         IN  IF entry \in _NTFS_RESERVED_FILE_NAMES
             THEN sanitize_entries(self, Tail(entries), replacement_text,
                      Append(sanitized_entries, entry \o << "_" >>))
             ELSE IF named.kind = "raise"
             THEN [ error |-> named.error, entries |-> sanitized_entries ]
             ELSE IF named.value.s = << >>
             THEN sanitize_entries(self, Tail(entries), replacement_text,
                      IF sanitized_entries = << >> THEN << << >> >>
                      ELSE sanitized_entries)
             ELSE sanitize_entries(self, Tail(entries), replacement_text,
                      Append(sanitized_entries, named.value.s))

\* FilePathSanitizer.sanitize(value, replacement_text): what it returns or
\* raises
FilePathSanitizer_sanitize(self, value, replacement_text) ==
    LET pathtype  == validate_pathtype(value, ~_is_windows(self.platform, TRUE))
        split     == split_drive(self, to_str(value))
        replaced  == Sub(regexp_chars(self.sanitize_regexp), replacement_text, split.tail)
        normal    == IF self.normalize /\ replaced # << >> THEN normpath(replaced)
                     ELSE replaced
        looped    == sanitize_entries(self, Split(ReplaceChar(normal, "\\", "/"), "/"),
                         replacement_text,
                         IF split.drive # << >> THEN << split.drive >> ELSE << >>)
        joined    == Join(looped.entries, get_path_separator(self))
        handled   == IF FilePathValidator_validate(self.validator, Str(joined)) = "NULL_NAME"
                     THEN null_value_handler(self.null_value_handler, "NULL_NAME")
                     ELSE Returned(Str(joined))
        revalidated == FilePathValidator_validate(self.validator, handled.value)
    IN  IF pathtype = "NULL_NAME"
        THEN IF value.type = "PurePath" THEN Raised("NULL_NAME")
             ELSE null_value_handler(self.null_value_handler, "NULL_NAME")
        ELSE IF pathtype # "OK" THEN Raised(pathtype)
        ELSE IF looped.error # "none" THEN Raised(looped.error)
        ELSE IF handled.kind = "raise" THEN handled
        ELSE IF self.validate_after_sanitize /\ revalidated # "OK" THEN Raised(revalidated)
        ELSE IF value.type = "PurePath" THEN Returned(PathValue(handled.value.s))
        ELSE handled

-----------------------------------------------------------------------------
(* The engine in use: the two instances are constructed from the same        *)
(* arguments, as validate_filepath, is_valid_filepath and sanitize_filepath  *)
(* construct them; one method is called; the value a sanitize call returned  *)
(* may be handed to a second call                                            *)

Unset == [unset |-> TRUE]

Init ==
    /\ pc = "new"
    /\ ctor = Unset
    /\ validator = Unset
    /\ sanitizer = Unset
    /\ call = Unset
    /\ ret = Unset
    /\ chain = Unset
    /\ calls = 0

\* FilePathValidator(...) and FilePathSanitizer(...); a ValueError of either
\* constructor leaves no instance
Construct(platform, min_len, max_len, check_reserved, handler, normalize, validate_after_sanitize) ==
    LET v == FilePathValidator_init(min_len, max_len, platform, check_reserved)
        z == FilePathSanitizer_init(max_len, platform, check_reserved, handler,
                                    normalize, validate_after_sanitize)
    IN  /\ pc = "new"
        /\ ctor' = [ platform |-> platform, min_len |-> min_len, max_len |-> max_len,
                     check_reserved |-> check_reserved, null_value_handler |-> handler,
                     normalize |-> normalize,
                     validate_after_sanitize |-> validate_after_sanitize ]
        /\ IF v.raised \/ z.raised
           THEN pc' = "failed" /\ UNCHANGED <<validator, sanitizer>>
           ELSE pc' = "ready" /\ validator' = v.self /\ sanitizer' = z.self
        /\ UNCHANGED <<call, ret, chain, calls>>

\* validate had it rebound the instance's drive splitter while it ran
Validate_rebinding(value) ==
    /\ pc = "ready"
    /\ call' = [ op |-> "validate", value |-> value, replacement_text |-> << >> ]
    /\ ret' = validate(validator, value)
    /\ pc' = "called"
    /\ calls' = calls + 1
    /\ validator' = [validator EXCEPT !.split_drive = "posixpath.splitdrive"]
    /\ UNCHANGED <<ctor, sanitizer, chain>>

\* validator.validate(value)
Validate(value) ==
    /\ pc = "ready"
    /\ call' = [ op |-> "validate", value |-> value, replacement_text |-> << >> ]
    /\ ret' = validate(validator, value)
    /\ pc' = "called"
    /\ calls' = calls + 1
    /\ UNCHANGED <<ctor, validator, sanitizer, chain>>

\* validator.is_valid(value)
IsValid(value) ==
    /\ pc = "ready"
    /\ call' = [ op |-> "is_valid", value |-> value, replacement_text |-> << >> ]
    /\ ret' = is_valid(validator, value)
    /\ pc' = "called"
    /\ calls' = calls + 1
    /\ UNCHANGED <<ctor, validator, sanitizer, chain>>

\* sanitizer.sanitize(value, replacement_text)
Sanitize(value, replacement_text) ==
    /\ pc = "ready"
    /\ call' = [ op |-> "sanitize", value |-> value,
                 replacement_text |-> replacement_text ]
    /\ ret' = FilePathSanitizer_sanitize(sanitizer, value, replacement_text)
    /\ pc' = "called"
    /\ calls' = calls + 1
    /\ UNCHANGED <<ctor, validator, sanitizer, chain>>

SanitizeReturned == pc = "called" /\ call.op = "sanitize" /\ ret.kind = "return"

\* validator.validate(sanitizer.sanitize(value, replacement_text))
ValidateSanitized ==
    /\ SanitizeReturned
    /\ chain' = [ op |-> "validate", ret |-> validate(validator, ret.value) ]
    /\ pc' = "chained"
    /\ calls' = calls + 1
    /\ UNCHANGED <<ctor, validator, sanitizer, call, ret>>

\* validator.is_valid(sanitizer.sanitize(value, replacement_text))
IsValidSanitized ==
    /\ SanitizeReturned
    /\ chain' = [ op |-> "is_valid", ret |-> is_valid(validator, ret.value) ]
    /\ pc' = "chained"
    /\ calls' = calls + 1
    /\ UNCHANGED <<ctor, validator, sanitizer, call, ret>>

\* sanitizer.sanitize(sanitizer.sanitize(value, replacement_text), replacement_text)
SanitizeSanitized ==
    /\ SanitizeReturned
    /\ chain' = [ op |-> "sanitize",
                  ret |-> FilePathSanitizer_sanitize(sanitizer, ret.value,
                              call.replacement_text) ]
    /\ pc' = "chained"
    /\ calls' = calls + 1
    /\ UNCHANGED <<ctor, validator, sanitizer, call, ret>>

\* the largest number of calls made on one pair of instances
MaxCalls == 3

\* the call is over, whether it returned or raised: the instances are there
\* for the next call
NextCall ==
    /\ pc \in { "called", "chained" }
    /\ calls < MaxCalls
    /\ pc' = "ready"
    /\ UNCHANGED <<ctor, validator, sanitizer, call, ret, chain, calls>>

-----------------------------------------------------------------------------
(* Inputs *)

\* the strings made of at most n of the given pieces
RECURSIVE Texts(_, _)
Texts(pieces, n) ==
    IF n = 0 THEN { << >> }
    ELSE LET shorter == Texts(pieces, n - 1)
         IN  shorter \cup { t \o p : t \in shorter, p \in pieces }

\* the pieces paths are made of: a letter, the separators, the drive colon,
\* the dot, a character invalid on Windows, a control character, a device name
Pieces ==
    { << "A" >>, << "/" >>, << "\\" >>, << ":" >>, << "." >>, << "*" >>,
      << "x01" >>, << "C", "O", "N" >> }

MaxParts == 3

Paths == { Str(t) : t \in Texts(Pieces, MaxParts) }

\* the replacement texts of the tests
ReplaceTexts == { << >>, << "_" >> }

\* one engine per platform, the other arguments at their defaults, the
\* replacement text too; paths are validated and sanitized, and the sanitized
\* path is validated or sanitized again
Next ==
    \/ \E platform \in Platforms :
           Construct(platform, DEFAULT_MIN_LEN, -1, TRUE, "return_null_string", TRUE, FALSE)
    \/ \E value \in Paths : Validate(value)
    \/ \E value \in Paths : Sanitize(value, << >>)
    \/ IsValidSanitized
    \/ SanitizeSanitized

Spec == Init /\ [][Next]_vars

\* the validator alone, with length limits short enough for paths of a few
\* characters to break them, on paths and on values that are no paths
LenArgPairs == { << DEFAULT_MIN_LEN, -1 >>, << 2, 3 >> }

Values == Paths \cup { NoneValue, IntValue }

NextValidate ==
    \/ \E platform \in Platforms, check_reserved \in BOOLEAN, lens \in LenArgPairs :
           Construct(platform, lens[1], lens[2], check_reserved,
                     "return_null_string", TRUE, FALSE)
    \/ \E value \in Values : Validate(value)
    \/ \E value \in Values : IsValid(value)

SpecValidate == Init /\ [][NextValidate]_vars

\* the paths "A" + c + "B" of the tests, for every ASCII character c
CharPath(c) == Str(<< "A", c, "B" >>)

\* replacement texts beyond those of the tests: an invalid character, a
\* separator
AnyReplaceTexts == ReplaceTexts \cup { << "*" >>, << "/" >> }

NextChar ==
    \/ \E platform \in Platforms, check_reserved \in BOOLEAN :
           Construct(platform, DEFAULT_MIN_LEN, -1, check_reserved,
                     "return_null_string", TRUE, FALSE)
    \/ \E c \in Ascii : Validate(CharPath(c))
    \/ \E c \in Ascii, replacement_text \in AnyReplaceTexts :
           Sanitize(CharPath(c), replacement_text)

SpecChar == Init /\ [][NextChar]_vars

\* str.lower on one character
LowerChar(c) ==
    IF \E i \in 1..26 : UpperCase[i] = c
    THEN LowerCase[CHOOSE i \in 1..26 : UpperCase[i] = c]
    ELSE c

\* the device names in upper and in lower case, bare and with an extension
DeviceNameCases ==
    WindowsDeviceNames
        \cup { [i \in 1..Len(n) |-> LowerChar(n[i])] : n \in WindowsDeviceNames }

Extensions == { << >>, << ".", "t", "x", "t" >> }

DeviceNamePaths == { Str(name \o ext) : name \in DeviceNameCases, ext \in Extensions }

NextReserved ==
    \/ \E platform \in Platforms, check_reserved \in BOOLEAN :
           Construct(platform, DEFAULT_MIN_LEN, -1, check_reserved,
                     "return_null_string", TRUE, FALSE)
    \/ \E value \in DeviceNamePaths : Validate(value)
    \/ \E value \in DeviceNamePaths : Sanitize(value, << >>)
    \/ ValidateSanitized

SpecReserved == Init /\ [][NextReserved]_vars

\* the constructors on lengths around zero and around every platform's
\* ceiling; the instances are then used
LenArgs == { -1, 0, 1, 2, 259, 260, 261, 1023, 1024, 1025, 4095, 4096, 4097 }

FewPaths == { Str(<< >>), Str(<< "A" >>), Str(<< "A", "/", "*" >>) }

NextConfig ==
    \/ \E platform \in Platforms, min_len \in LenArgs, max_len \in LenArgs :
           Construct(platform, min_len, max_len, TRUE, "return_null_string",
                     TRUE, FALSE)
    \/ \E value \in FewPaths : Validate(value)
    \/ \E value \in FewPaths : IsValid(value)
    \/ \E value \in FewPaths : Sanitize(value, << >>)
    \/ ValidateSanitized

SpecConfig == Init /\ [][NextConfig]_vars

\* the sanitizer under each null-value handler, on strings and on path
\* objects that are empty, a bare root, or emptied by the sanitization
NullPieces == { << "A" >>, << "/" >>, << "*" >>, << "." >> }

NullTexts == Texts(NullPieces, 2)

NullValues == { Str(t) : t \in NullTexts } \cup { PathValue(t) : t \in NullTexts }

NextNull ==
    \/ \E platform \in Platforms, handler \in NullValueHandlers :
           Construct(platform, DEFAULT_MIN_LEN, -1, TRUE, handler, TRUE, FALSE)
    \/ \E value \in NullValues, replacement_text \in ReplaceTexts :
           Sanitize(value, replacement_text)

SpecNull == Init /\ [][NextNull]_vars

\* instances shared by a sequence of calls, calls that raise among them
SharedValues ==
    FewPaths \cup { Str(<< "A", ":", "B" >>), Str(<< "/", "A" >>), NoneValue, IntValue }

NextShared ==
    \/ \E platform \in Platforms, check_reserved \in BOOLEAN :
           Construct(platform, DEFAULT_MIN_LEN, -1, check_reserved, "return_null_string", TRUE, FALSE)
    \/ \E value \in SharedValues : Validate(value)
    \/ \E value \in SharedValues : IsValid(value)
    \/ \E value \in SharedValues : Sanitize(value, << >>)
    \/ NextCall

SpecShared == Init /\ [][NextShared]_vars

-----------------------------------------------------------------------------
(* The claims *)

Called(op) == pc = "called" /\ call.op = op

Chained(op) == pc = "chained" /\ chain.op = op

\* the configured platform's invalid path character set
InvalidPathChars(platform) ==
    IF platform \in { "WINDOWS", "UNIVERSAL" } THEN _INVALID_WIN_PATH_CHARS
    ELSE _INVALID_PATH_CHARS

\* a POSIX-absolute path starts with "/"
IsPosixAbsolute(s) == Len(s) >= 1 /\ s[1] = "/"

\* a Windows drive-absolute path: a letter, a colon, a separator ("C:\a\b")
IsDriveAbsolute(s) ==
    /\ Len(s) >= 3
    /\ \E i \in 1..26 : s[1] \in { LowerCase[i], UpperCase[i] }
    /\ s[2] = ":"
    /\ s[3] \in { "\\", "/" }

\* a backslash-rooted path ("\a")
IsBackslashRooted(s) == Len(s) >= 1 /\ s[1] = "\\"

\* C1: the path a sanitizer returns is valid for a validator of the same
\* platform, max_len and check_reserved.  The empty result, which the claim
\* excepts under a raising handler, is left out under every handler.
C1_SanitizedIsValid ==
    (Chained("is_valid") /\ ret.value.s # << >>)
        => chain.ret = Returned(BoolValue(TRUE))

\* C2: sanitizing a sanitized path again, with the same replacement text,
\* returns it as it is.
C2_SanitizeIdempotent == Chained("sanitize") => chain.ret = ret

\* C3: for every character c of the platform's invalid path character set,
\* validating "A" + c + "B" raises INVALID_CHARACTER and sanitizing it with
\* the replacement text r returns "A" + r + "B".
C3_InvalidCharsCovered ==
    \A c \in Ascii :
        ( /\ pc = "called"
          /\ c \in InvalidPathChars(validator.platform)
          /\ call.value = CharPath(c)
          /\ call.replacement_text \in ReplaceTexts )
            => /\ call.op = "validate" => ret = Raised("INVALID_CHARACTER")
               /\ call.op = "sanitize"
                      => ret = Returned(Str(<< "A" >> \o call.replacement_text \o << "B" >>))

\* the separator the sanitizer of a platform writes
SeparatorOf(platform) == IF platform = "WINDOWS" THEN "\\" ELSE "/"

\* C4, as amended: for every character c outside the platform's invalid path
\* character set, validating "A" + c + "B" passes, and sanitizing it, with
\* any replacement text, returns it unchanged but for a separator c, which is
\* written as the platform's separator.
C4_ValidCharsKept ==
    \A c \in Ascii :
        ( /\ pc = "called"
          /\ c \notin InvalidPathChars(validator.platform)
          /\ call.value = CharPath(c) )
            => /\ call.op = "validate" => ret = Returned(NoneValue)
               /\ call.op = "sanitize"
                      => ret = Returned(CharPath(
                             IF c \in { "/", "\\" } THEN SeparatorOf(sanitizer.platform)
                             ELSE c))

\* C4 as stated: sanitizing "A" + c + "B" returns it unchanged for every
\* character c outside the invalid set, the separators included.
C4_ValidCharsUnchanged ==
    \A c \in Ascii :
        ( /\ Called("sanitize")
          /\ c \notin InvalidPathChars(validator.platform)
          /\ call.value = CharPath(c) )
            => ret = Returned(call.value)

\* C4's case: "A/B" sanitized for Windows is "A\B"
C4_Witness ==
    /\ Called("sanitize")
    /\ sanitizer.platform = "WINDOWS"
    /\ call.value = CharPath("/")
    /\ ret = Returned(CharPath("\\"))

\* C5: validate for WINDOWS raises MALFORMED_ABS_PATH on every POSIX-absolute
\* path, and validate for LINUX on every Windows drive-absolute path.
C5_AbsolutePathStyle ==
    Called("validate")
        => /\ (validator.platform = "WINDOWS" /\ IsPosixAbsolute(call.value.s))
                  => ret = Raised("MALFORMED_ABS_PATH")
           /\ (validator.platform = "LINUX" /\ IsDriveAbsolute(call.value.s))
                  => ret = Raised("MALFORMED_ABS_PATH")

\* C6: validate for UNIVERSAL raises MALFORMED_ABS_PATH on every path that is
\* POSIX-absolute or Windows-absolute (drive-letter form or backslash-rooted).
C6_UniversalRejectsAbsolute ==
    ( /\ Called("validate")
      /\ validator.platform = "UNIVERSAL"
      /\ \/ IsPosixAbsolute(call.value.s)
         \/ IsDriveAbsolute(call.value.s)
         \/ IsBackslashRooted(call.value.s) )
        => ret = Raised("MALFORMED_ABS_PATH")

\* the order in which FilePathValidator.validate is said to check its rules
CheckOrder ==
    << "NULL_NAME", "MALFORMED_ABS_PATH", "INVALID_LENGTH", "RESERVED_NAME",
       "INVALID_CHARACTER" >>

\* the path without its drive, as the validator of a platform splits it
TailOf(self, value) == split_drive(self, value.s).tail

\* a str or None breaks a rule of FilePathValidator.validate, each rule taken
\* on its own: the value is null; its absolute form is not the platform's;
\* its tail is longer than max_len or shorter than min_len; reserved names
\* are checked and the tail, or a component of it, is one; the tail has a
\* character of the platform's invalid set
Violated(rule, self, value) ==
    LET tail == TailOf(self, value)
    IN  CASE rule = "NULL_NAME" ->
                 \/ value.type = "NoneType"
                 \/ value.s = << >>
                 \/ self.platform \in { "WINDOWS", "UNIVERSAL" } /\ IsBlank(value.s)
          [] rule = "MALFORMED_ABS_PATH" -> validate_abspath_raises(self, value.s)
          [] rule = "INVALID_LENGTH" ->
                 /\ tail # << >>
                 /\ Len(tail) > self.max_len \/ Len(tail) < self.min_len
          [] rule = "RESERVED_NAME" ->
                 /\ tail # << >>
                 /\ self.check_reserved
                 /\ \/ Upper(extract_root_name(tail))
                           \in FilePathValidator_reserved_keywords(self.platform)
                    \/ entry_reserved(self, tail)
          [] rule = "INVALID_CHARACTER" ->
                 \E i \in 1..Len(tail) : tail[i] \in InvalidPathChars(self.platform)

\* the Windows scan's own reserved-name pattern: what is left of the tail
\* after a second drive split is "/" and a reserved file name
NtfsPattern(self, value) ==
    /\ self.platform \in { "WINDOWS", "UNIVERSAL" }
    /\ RE_NTFS_RESERVED_search(
           split_drive(self, ReplaceChar(TailOf(self, value), "\\", "/")).tail)

\* C7: validate reports one reason, the earliest broken rule in the order
\* NULL_NAME, MALFORMED_ABS_PATH, INVALID_LENGTH, RESERVED_NAME,
\* INVALID_CHARACTER; a path that breaks none of them passes, or is refused
\* as RESERVED_NAME by the Windows scan's pattern.
C7_FirstViolatedRuleReported ==
    (Called("validate") /\ call.value.type \in { "str", "NoneType" })
        => LET violated == { i \in 1..5 : Violated(CheckOrder[i], validator, call.value) }
               first    == CHOOSE i \in violated : \A j \in violated : i <= j
           IN  IF violated = { }
               THEN \/ ret = Returned(NoneValue)
                    \/ ret = Raised("RESERVED_NAME") /\ NtfsPattern(validator, call.value)
               ELSE ret = Raised(CheckOrder[first])

\* C7's cases: a tail with a reserved component and an invalid character is
\* refused as RESERVED_NAME
C7_Witness ==
    /\ Called("validate")
    /\ Violated("RESERVED_NAME", validator, call.value)
    /\ Violated("INVALID_CHARACTER", validator, call.value)
    /\ ret = Raised("RESERVED_NAME")

C9_ReservedNames ==
    (pc \in { "called", "chained" } /\ validator.platform = "WINDOWS"
         /\ validator.check_reserved)
        => /\ Called("validate") => ret = Raised("RESERVED_NAME")
           /\ call.op = "sanitize"
                  => \E name \in DeviceNameCases, ext \in Extensions :
                         /\ call.value = Str(name \o ext)
                         /\ ret = Returned(Str(name \o << "_" >> \o ext))
           /\ Chained("validate") => chain.ret = Returned(NoneValue)

\* C9's case: "LPT9.txt" was sanitized to "LPT9_.txt", which validated
C9_Witness ==
    /\ Chained("validate")
    /\ validator.platform = "WINDOWS"
    /\ validator.check_reserved
    /\ call.value = Str(<< "L", "P", "T", "9", ".", "t", "x", "t" >>)
    /\ ret = Returned(Str(<< "L", "P", "T", "9", "_", ".", "t", "x", "t" >>))
    /\ chain.ret = Returned(NoneValue)

\* the longest path of a platform
Ceiling(platform) ==
    CASE platform = "LINUX" -> 4096
      [] platform \in { "MACOS", "POSIX" } -> 1024
      [] platform \in { "WINDOWS", "UNIVERSAL" } -> 260

\* the limits of an instance built from the constructor's arguments
LimitsHold(self) ==
    /\ 1 <= self.min_len
    /\ self.min_len <= self.max_len
    /\ self.max_len <= Ceiling(ctor.platform)
    /\ self.max_len = IF ctor.max_len > 0 /\ ctor.max_len <= Ceiling(ctor.platform)
                      THEN ctor.max_len
                      ELSE Ceiling(ctor.platform)

\* C10: a construction either fails or leaves instances with
\* 1 <= min_len <= max_len <= the platform's ceiling, max_len being the
\* caller's value when that is positive and within the ceiling and the
\* ceiling otherwise; and so they stay through every call.
C10_ConfigInvariant ==
    pc \notin { "new", "failed" } => LimitsHold(validator) /\ LimitsHold(sanitizer)

\* C10's case: a LINUX validator asked for max_len 4097 holds 4096 after a call
C10_Witness ==
    /\ pc = "called"
    /\ ctor.platform = "LINUX"
    /\ ctor.max_len = 4097
    /\ validator.max_len = 4096

\* C11: sanitize on a str that is empty returns what the null-value handler
\* returns, and returns an empty str only as the handler's value; sanitize on
\* a path object never substitutes the handler's value: a path object is not
\* returned for an empty sanitized text, nor with the handler's text in it.
C11_NullNameByCategory ==
    Called("sanitize")
        => /\ (call.value.type = "str" /\ call.value.s = << >>)
                  => ret = null_value_handler(sanitizer.null_value_handler, "NULL_NAME")
           /\ (call.value.type = "str" /\ ret = Returned(Str(<< >>)))
                  => sanitizer.null_value_handler = "return_null_string"
           /\ (call.value.type = "PurePath" /\ ret.kind = "return")
                  => /\ ret.value.s # << >>
                     /\ \A i \in 1..Len(ret.value.s) : ret.value.s[i] \notin Digits

\* C12: with check_reserved False, validate never raises RESERVED_NAME and
\* sanitize returns a device name, bare or with an extension, as it is.
C12_CheckReservedOff ==
    (pc = "called" /\ ~validator.check_reserved)
        => /\ call.op = "validate" => ret # Raised("RESERVED_NAME")
           /\ (call.op = "sanitize" /\ call.value \in DeviceNamePaths)
                  => ret = Returned(call.value)

\* C13: a path longer than the sanitizer's max_len is returned by sanitize cut
\* to at most max_len.
C13_SanitizeTruncates ==
    ( /\ Called("sanitize")
      /\ Len(call.value.s) > sanitizer.max_len
      /\ ret.kind = "return" )
        => Len(ret.value.s) <= sanitizer.max_len

\* the instances a construction with the recorded arguments gives
FreshValidator ==
    FilePathValidator_init(ctor.min_len, ctor.max_len, ctor.platform, ctor.check_reserved).self

FreshSanitizer ==
    FilePathSanitizer_init(ctor.max_len, ctor.platform, ctor.check_reserved,
        ctor.null_value_handler, ctor.normalize, ctor.validate_after_sanitize).self

Normalized(s) ==
    LET entries == Split(ReplaceChar(s, "\\", "/"), "/")
    IN  /\ \A i \in 1..Len(entries) : entries[i] \notin { << "." >>, << ".", "." >> }
        /\ \/ Len(s) = 1
           \/ \A i \in 2..Len(entries) : entries[i] # << >>

\* C15: sanitize, with its default arguments, returns a path that validate
\* accepts and that is already normalized as it is; the bare root "/" on
\* LINUX among them.
C15_ValidPathsFixed ==
    ( /\ Called("sanitize")
      /\ Normalized(call.value.s)
      /\ validate(validator, call.value) = Returned(NoneValue) )
        => ret = Returned(call.value)

=============================================================================
